---------------------------- MODULE Spec2Model ----------------------------
(***************************************************************************)
(* A model of rename_photos.py: discovery of the image files of one        *)
(* folder (find_images), plan generation (generate_new_names), the         *)
(* two-phase renamer (rename_files), and main with its preview and its     *)
(* prompt (confirm_action), run on a modelled directory.                   *)
(*                                                                         *)
(* A file name is a sequence of one-character strings.  The directory is   *)
(* a function from the names present to entries [kind, content, stat].     *)
(* The environment (operating system, metadata exposed by stat, the local  *)
(* time zone) is chosen in Init and never changes.                         *)
(***************************************************************************)
EXTENDS Integers, Sequences, FiniteSets, TLC

---------------------------------------------------------------------------
(* Bounds of the model *)

\* Largest number of entries in the modelled directory.
MaxFiles == 3

\* Filesystem timestamps are the ticks 1..MaxTime.
MaxTime == 3

\* The tick at which the "dst" zone puts its clocks back, and by how much.
DstEnd == 2

DstShift == 2

\* Longest list of paths handed to generate_new_names on its own.
MaxPlanLen == 101

\* The user answers the prompt of confirm_action by the MaxPrompts-th line.
MaxPrompts == 3

\* How many times the pipeline is run on one directory.
MaxRuns == 2

---------------------------------------------------------------------------
(* Strings *)

UpperChars == <<"A","B","C","D","E","F","G","H","I","J","K","L","M",
                "N","O","P","Q","R","S","T","U","V","W","X","Y","Z">>

LowerChars == <<"a","b","c","d","e","f","g","h","i","j","k","l","m",
                "n","o","p","q","r","s","t","u","v","w","x","y","z">>

DigitChars == <<"0","1","2","3","4","5","6","7","8","9">>

\* str.lower() on one character
lower_char(c) ==
    IF \E k \in 1..Len(UpperChars) : UpperChars[k] = c
    THEN LowerChars[CHOOSE k \in 1..Len(UpperChars) : UpperChars[k] = c]
    ELSE c

\* str.lower()
lower(s) == [k \in 1..Len(s) |-> lower_char(s[k])]

\* str.rfind(ch), 0-based as in Python; -1 when ch does not occur
rfind(s, ch) ==
    LET hits == {k \in 1..Len(s) : s[k] = ch}
    IN  IF hits = {} THEN -1
        ELSE (CHOOSE k \in hits : \A m \in hits : m <= k) - 1

\* PurePath.suffix: the part of the name from its last dot, when that dot is
\* neither the first nor the last character of the name
suffix(name) ==
    LET p == rfind(name, ".")
    IN  IF 0 < p /\ p < Len(name) - 1
        THEN SubSeq(name, p + 1, Len(name))
        ELSE <<>>

\* str.strip(): without the white space at both ends
Whitespace == {" ", "\t"}

strip(s) ==
    LET keep == {k \in 1..Len(s) : s[k] \notin Whitespace}
    IN  IF keep = {} THEN <<>>
        ELSE SubSeq(s, CHOOSE k \in keep : \A m \in keep : k <= m,
                       CHOOSE k \in keep : \A m \in keep : m <= k)

\* PurePath.name: the last component of a path
path_name(p) == SubSeq(p, rfind(p, "/") + 2, Len(p))

\* PurePath.parent, written without its last slash; the parent "." of a bare
\* name is the empty sequence
path_parent(p) ==
    IF rfind(p, "/") < 0 THEN <<>> ELSE SubSeq(p, 1, rfind(p, "/"))

\* parent / name
joinpath(parent, name) ==
    IF parent = <<>> THEN name ELSE parent \o <<"/">> \o name

\* the decimal digits of n >= 0
RECURSIVE Digits(_)
Digits(n) ==
    IF n < 10 THEN <<DigitChars[n + 1]>>
    ELSE Digits(n \div 10) \o <<DigitChars[(n % 10) + 1]>>

\* f"{n:03d}"
format_03d(n) ==
    LET d == Digits(n)
    IN  IF Len(d) < 2 THEN <<"0", "0">> \o d
        ELSE IF Len(d) < 3 THEN <<"0">> \o d ELSE d

\* f"{n:02d}"
format_02d(n) ==
    LET d == Digits(n)
    IN  IF Len(d) < 2 THEN <<"0">> \o d ELSE d

---------------------------------------------------------------------------
(* Program constants *)

IMAGE_EXTENSIONS == { <<".","j","p","g">>, <<".","j","p","e","g">>,
                      <<".","p","n","g">>, <<".","h","e","i","c">> }

\* the prefix of "__temp_rename_{old_path.name}"
TEMP_PREFIX == <<"_","_","t","e","m","p","_","r","e","n","a","m","e","_">>

\* one temporary name for every file
temp_name_fixed(name) == joinpath(path_parent(name), TEMP_PREFIX)

\* renaming in place, without a temporary name
temp_name_none(name) == name

\* old_path.parent / f"__temp_rename_{old_path.name}"
temp_name(name) == joinpath(path_parent(name), TEMP_PREFIX \o path_name(name))

---------------------------------------------------------------------------
(* The environment and the directory *)

VARIABLES
    os_name,        \* os.name: "posix" or "nt"
    has_birthtime,  \* whether stat results carry st_birthtime
    tz,             \* the local time zone: "utc" or "dst"
    fs,             \* the directory now: name -> entry
    fs0,            \* the directory when the run began
    pc,             \* where the run is
    images,         \* find_images' result
    renames,        \* generate_new_names' result
    temp_renames,   \* rename_files' (old, temp, new) triples
    idx,            \* position of the running loop of rename_files
    renamed_count,  \* rename_files' counter
    result,         \* rename_files' return value, or "raised", or "none"
    rename_calls,   \* how many times Path.rename has been called
    rename_log,     \* the Path.rename calls of rename_files, in order
    listed,         \* what iterdir yielded to the find_images that just returned
    creation_date,  \* get_creation_date's return value, or "none"
    folder_kind,    \* what the path given to main is
    preview,        \* the lines preview_renames has printed
    inputs,         \* the lines confirm_action has read
    answer,         \* confirm_action's return value, "True" or "False", or "none"
    exit_code,      \* main's return value, or "none"
    run             \* which run on the directory this is

vars == <<os_name, has_birthtime, tz, fs, fs0, pc, images, renames,
          temp_renames, idx, renamed_count, result, rename_calls, rename_log,
          listed, creation_date, folder_kind, preview, inputs, answer,
          exit_code, run>>

env == <<os_name, has_birthtime, tz, fs0>>

\* what main and its prompt hold, and what the pipeline's functions never touch
outer == <<folder_kind, preview, inputs, answer, exit_code, creation_date, run>>

N_a_JPG   == <<"a",".","J","P","G">>

N_01_jpg  == <<"0","1",".","j","p","g">>

N_02_jpg  == <<"0","2",".","j","p","g">>

N_03_jpg  == <<"0","3",".","j","p","g">>

N_n_txt   == <<"n",".","t","x","t">>

\* a file left at its temporary name, as a run that raised leaves it
N_temp_a_JPG == TEMP_PREFIX \o N_a_JPG

\* The candidate entries of the directory: name, kind and content.
\* Every candidate has its own content, so a content names one original file.
EntryPool ==
    { [name |-> N_a_JPG,            kind |-> "file", content |-> 1],
      [name |-> N_temp_a_JPG,       kind |-> "file", content |-> 2],
      [name |-> N_01_jpg,           kind |-> "file", content |-> 3],
      [name |-> N_02_jpg,           kind |-> "file", content |-> 4],
      [name |-> N_03_jpg,           kind |-> "file", content |-> 5],
      [name |-> N_n_txt,            kind |-> "file", content |-> 6],
      [name |-> N_02_jpg,           kind |-> "dir",  content |-> 7] }

\* The stat results drawn for a file: the three timestamps differ, and each
\* of them ranges over every tick.
StatPool ==
    { [st_birthtime |-> t,
       st_ctime     |-> (t % MaxTime) + 1,
       st_mtime     |-> ((t + 1) % MaxTime) + 1] : t \in 1..MaxTime }

\* the filter without is_file()
is_image_of_any_kind(name, entry) ==
    lower(suffix(name)) \in IMAGE_EXTENSIONS

\* the filter without lower()
is_image_case_sensitive(name, entry) ==
    entry.kind = "file" /\ suffix(name) \in IMAGE_EXTENSIONS

\* f.is_file() and f.suffix.lower() in IMAGE_EXTENSIONS
is_image(name, entry) ==
    entry.kind = "file" /\ lower(suffix(name)) \in IMAGE_EXTENSIONS

\* the directories of at most maxn entries drawn from pool, names distinct
DirectoriesFrom(pool, maxn) ==
    LET picks == {S \in SUBSET pool :
                     /\ Cardinality(S) <= maxn
                     /\ \A x, y \in S : x.name = y.name => x = y}
        names(S) == {x.name : x \in S}
        \* the stat of an entry discovery does not select is never read
        stats(S) == {st \in [names(S) -> StatPool] :
                        \A x \in S : ~is_image(x.name, x)
                                       => st[x.name].st_birthtime = 1}
    IN  UNION { { [n \in names(S) |->
                     LET x == CHOOSE x \in S : x.name = n
                     IN  [kind |-> x.kind, content |-> x.content, stat |-> st[n]] ]
                  : st \in stats(S) }
                : S \in picks }

Directories == DirectoriesFrom(EntryPool, MaxFiles)

\* the state before anything ran, on the directory d, but for where the run
\* begins and what it is given
Blank(d) ==
    /\ fs = d
    /\ fs0 = d
    /\ renames = <<>>
    /\ temp_renames = <<>>
    /\ idx = 0
    /\ renamed_count = 0
    /\ result = "none"
    /\ rename_calls = 0
    /\ rename_log = <<>>
    /\ listed = <<>>
    /\ creation_date = "none"
    /\ preview = <<>>
    /\ inputs = <<>>
    /\ answer = "none"
    /\ exit_code = "none"
    /\ run = 1

\* the state before find_images or rename_files is called on the directory d
Begin(d) ==
    /\ Blank(d)
    /\ images = <<>>
    /\ pc = "start"
    /\ folder_kind = "dir"

Init ==
    /\ os_name \in {"posix", "nt"}
    /\ has_birthtime \in BOOLEAN
    /\ tz \in {"utc", "dst"}
    /\ \E d \in Directories : Begin(d)

---------------------------------------------------------------------------
(* Discovery *)

\* datetime.fromtimestamp(t): the naive local wall-clock time of tick t.
\* In the "dst" zone daylight saving time ends at tick DstEnd: the ticks
\* before it read DstShift later on the wall clock.
fromtimestamp(t) ==
    IF tz = "dst" /\ t < DstEnd THEN t + DstShift ELSE t

\* the chain with the test of the operating system first
get_creation_date_ctime_first(stat) ==
    IF os_name = "nt" THEN fromtimestamp(stat.st_ctime)
    ELSE IF has_birthtime THEN fromtimestamp(stat.st_birthtime)
    ELSE fromtimestamp(stat.st_mtime)

get_creation_date(stat) ==
    IF has_birthtime THEN fromtimestamp(stat.st_birthtime)
    ELSE IF os_name = "nt" THEN fromtimestamp(stat.st_ctime)
    ELSE fromtimestamp(stat.st_mtime)

\* the sort key of a path of the directory d
creation_key(d, name) == get_creation_date(d[name].stat)

\* sorted(seq, key=...): a stable sort, as an insertion sort that puts each
\* element behind the elements that do not compare greater
RECURSIVE sorted_by_date(_, _)
sorted_by_date(d, seq) ==
    IF seq = <<>> THEN <<>>
    ELSE LET front == sorted_by_date(d, SubSeq(seq, 1, Len(seq) - 1))
             x     == seq[Len(seq)]
             keep  == {k \in 1..Len(front) :
                          creation_key(d, front[k]) <= creation_key(d, x)}
             cut   == IF keep = {} THEN 0
                      ELSE CHOOSE k \in keep : \A m \in keep : m <= k
         IN  SubSeq(front, 1, cut) \o <<x>> \o SubSeq(front, cut + 1, Len(front))

\* the list comprehension of find_images over the listing
RECURSIVE filter_images(_, _)
filter_images(d, listing) ==
    IF listing = <<>> THEN <<>>
    ELSE LET f == Head(listing)
         IN  (IF is_image(f, d[f]) THEN <<f>> ELSE <<>>)
             \o filter_images(d, Tail(listing))

find_images(d, listing) == sorted_by_date(d, filter_images(d, listing))

\* folder.iterdir() yields the entries in an arbitrary order
Listings(d) ==
    {l \in [1..Cardinality(DOMAIN d) -> DOMAIN d] :
        \A p, q \in 1..Cardinality(DOMAIN d) : l[p] = l[q] => p = q}

FindImages ==
    /\ pc = "start"
    /\ \E listing \in Listings(fs) :
          /\ listed' = listing
          /\ images' = find_images(fs, listing)
    /\ pc' = "found"
    /\ UNCHANGED <<env, outer, fs, renames, temp_renames, idx, renamed_count,
                   result, rename_calls, rename_log>>

---------------------------------------------------------------------------
(* Plan generation *)

\* enumerate without start=1
generate_new_names_from_zero(imgs) ==
    [k \in 1..Len(imgs) |->
        <<imgs[k], format_02d(k - 1) \o lower(suffix(imgs[k]))>>]

\* the (image, new_path) pairs.  A path of the modelled folder is a bare
\* name, and image.parent / new_name is then the name new_name.
generate_new_names(imgs) ==
    [k \in 1..Len(imgs) |->
        <<imgs[k],
          joinpath(path_parent(imgs[k]),
                   format_02d(k) \o lower(suffix(path_name(imgs[k]))))>>]

GenerateNewNames ==
    /\ pc = "found"
    /\ renames' = generate_new_names(images)
    /\ listed' = <<>>
    /\ pc' = "planned"
    /\ UNCHANGED <<env, outer, fs, images, temp_renames, idx, renamed_count,
                   result, rename_calls, rename_log>>

---------------------------------------------------------------------------
(* Execution *)

\* Path.rename(src, dst) raises OSError: the source is missing, the target
\* is a directory, or (Windows) the target exists
rename_raises(d, src, dst) ==
    \/ src \notin DOMAIN d
    \/ /\ dst \in DOMAIN d
       /\ dst # src
       /\ \/ os_name = "nt"
          \/ d[dst].kind = "dir"
          \/ d[src].kind = "dir"

\* the directory after a successful Path.rename(src, dst): the entry moves,
\* and on POSIX it silently replaces a file that held the target name.
\* (rename leaves st_birthtime and st_mtime alone, and st_ctime on Windows,
\* where alone it is read.)
renamed(d, src, dst) ==
    [n \in (DOMAIN d \ {src}) \cup {dst} |-> IF n = dst THEN d[src] ELSE d[n]]

\* one call old_path.rename(temp_path) or temp_path.rename(new_path), and
\* whether it returned
rename_call(src, dst, ok) == [src |-> src, dst |-> dst, ok |-> ok]

\* a loop that stops one entry early
build_temp_renames_but_last(plan) ==
    [k \in 1..(Len(plan) - 1) |->
        [old |-> plan[k][1], temp |-> TEMP_PREFIX \o plan[k][1], new |-> plan[k][2]]]

\* the (old_path, temp_path, new_path) triples
build_temp_renames(plan) ==
    [k \in 1..Len(plan) |->
        [old |-> plan[k][1], temp |-> temp_name(plan[k][1]), new |-> plan[k][2]]]

RenameFilesBegin ==
    /\ pc = "planned"
    /\ temp_renames' = build_temp_renames(renames)
    /\ idx' = 1
    /\ pc' = "stage"
    /\ UNCHANGED <<env, outer, fs, images, renames, renamed_count, result,
                   rename_calls, rename_log, listed>>

\* a single pass: each file goes to its temporary and on to its final name
StageRename_then_commit ==
    /\ pc = "stage"
    /\ idx <= Len(temp_renames)
    /\ rename_calls' = rename_calls + 2
    /\ LET e == temp_renames[idx]
       IN  /\ ~rename_raises(fs, e.old, e.temp)
           /\ ~rename_raises(renamed(fs, e.old, e.temp), e.temp, e.new)
           /\ rename_log' = rename_log \o <<rename_call(e.old, e.temp, TRUE),
                                             rename_call(e.temp, e.new, TRUE)>>
           /\ fs' = renamed(renamed(fs, e.old, e.temp), e.temp, e.new)
    /\ idx' = idx + 1
    /\ UNCHANGED <<env, outer, pc, result, images, renames, temp_renames,
                   renamed_count, listed>>

\* one iteration of the first pass.  io_error is an error of the operating
\* system (permission denied, ...) that the directory does not explain.
\* Both handlers print and re-raise, so an exception ends rename_files.
StageRename ==
    /\ pc = "stage"
    /\ idx <= Len(temp_renames)
    /\ rename_calls' = rename_calls + 1
    /\ \E io_error \in BOOLEAN :
          LET e == temp_renames[idx]
          IN  IF io_error \/ rename_raises(fs, e.old, e.temp)
              THEN /\ rename_log' = Append(rename_log, rename_call(e.old, e.temp, FALSE))
                   /\ pc' = "stage_raised"
                   /\ result' = "raised"
                   /\ UNCHANGED <<fs, idx>>
              ELSE /\ rename_log' = Append(rename_log, rename_call(e.old, e.temp, TRUE))
                   /\ fs' = renamed(fs, e.old, e.temp)
                   /\ idx' = idx + 1
                   /\ UNCHANGED <<pc, result>>
    /\ UNCHANGED <<env, outer, images, renames, temp_renames, renamed_count,
                   listed>>

\* the first pass is over: renamed_count = 0 and the second pass begins
StageDone ==
    /\ pc = "stage"
    /\ idx > Len(temp_renames)
    /\ renamed_count' = 0
    /\ idx' = 1
    /\ pc' = "commit"
    /\ UNCHANGED <<env, outer, fs, images, renames, temp_renames, result,
                   rename_calls, rename_log, listed>>

\* one iteration of the second pass
CommitRename ==
    /\ pc = "commit"
    /\ idx <= Len(temp_renames)
    /\ rename_calls' = rename_calls + 1
    /\ \E io_error \in BOOLEAN :
          LET e == temp_renames[idx]
          IN  IF io_error \/ rename_raises(fs, e.temp, e.new)
              THEN /\ rename_log' = Append(rename_log, rename_call(e.temp, e.new, FALSE))
                   /\ pc' = "commit_raised"
                   /\ result' = "raised"
                   /\ UNCHANGED <<fs, idx, renamed_count>>
              ELSE /\ rename_log' = Append(rename_log, rename_call(e.temp, e.new, TRUE))
                   /\ fs' = renamed(fs, e.temp, e.new)
                   /\ renamed_count' = renamed_count + 1
                   /\ idx' = idx + 1
                   /\ UNCHANGED <<pc, result>>
    /\ UNCHANGED <<env, outer, images, renames, temp_renames, listed>>

\* return renamed_count
Return ==
    /\ pc = "commit"
    /\ idx > Len(temp_renames)
    /\ result' = renamed_count
    /\ pc' = "done"
    /\ UNCHANGED <<env, outer, fs, images, renames, temp_renames, idx,
                   renamed_count, rename_calls, rename_log, listed>>

---------------------------------------------------------------------------
Next ==
    \/ FindImages
    \/ GenerateNewNames
    \/ RenameFilesBegin
    \/ StageRename
    \/ StageDone
    \/ CommitRename
    \/ Return

Spec == Init /\ [][Next]_vars

---------------------------------------------------------------------------
(* rename_files on a plan its caller built, as test_handles_name_conflicts  *)
(* does: the targets of the plan are a permutation of its sources.         *)

\* the injective sequences of length n over S
Arrangements(S, n) ==
    {q \in [1..n -> S] : \A i, j \in 1..n : q[i] = q[j] => i = j}

PermutationPlans(d) ==
    LET files == {n \in DOMAIN d : d[n].kind = "file"}
    IN  UNION { { [k \in 1..Cardinality(S) |-> <<src[k], tgt[k]>>] :
                    src \in Arrangements(S, Cardinality(S)),
                    tgt \in Arrangements(S, Cardinality(S)) }
                : S \in SUBSET files }

CallRenameFiles ==
    /\ pc = "start"
    /\ \E plan \in PermutationPlans(fs) : renames' = plan
    /\ pc' = "planned"
    /\ UNCHANGED <<env, outer, fs, images, temp_renames, idx, renamed_count,
                   result, rename_calls, rename_log, listed>>

\* rename_files reads no timestamp: one stat and one zone are enough
InitCaller ==
    /\ os_name \in {"posix", "nt"}
    /\ has_birthtime = FALSE
    /\ tz = "utc"
    /\ \E d \in Directories :
          /\ \A n \in DOMAIN d : d[n].stat.st_birthtime = 1
          /\ Begin(d)

NextCaller ==
    \/ CallRenameFiles
    \/ RenameFilesBegin
    \/ StageRename
    \/ StageDone
    \/ CommitRename
    \/ Return

SpecCaller == InitCaller /\ [][NextCaller]_vars

---------------------------------------------------------------------------
(* find_images alone, on directories drawn from a pool of names that vary  *)
(* the extension, its letter case and the place of the dots.               *)

\* Largest number of entries of a directory of the discovery pool.
MaxListed == 2

DiscoveryPool ==
    { [name |-> N_a_JPG,                              kind |-> "file", content |-> 1],
      [name |-> <<"b",".","j","p","e","g">>,          kind |-> "file", content |-> 2],
      [name |-> <<"c",".","p","n","g">>,              kind |-> "file", content |-> 3],
      [name |-> <<"d",".","h","e","i","c">>,          kind |-> "file", content |-> 4],
      [name |-> <<"e",".","H","e","i","c">>,          kind |-> "file", content |-> 5],
      [name |-> <<"f",".","H","E","I","C">>,          kind |-> "file", content |-> 6],
      [name |-> N_n_txt,                              kind |-> "file", content |-> 7],
      [name |-> <<".","j","p","g">>,                  kind |-> "file", content |-> 8],
      [name |-> <<"g",".","j","p","g",".","t","x","t">>, kind |-> "file", content |-> 9],
      [name |-> <<"h",".","t","x","t",".","p","n","g">>, kind |-> "file", content |-> 10],
      [name |-> <<"p","n","g">>,                      kind |-> "file", content |-> 11],
      [name |-> <<"i",".","j","p","g",".">>,          kind |-> "file", content |-> 12],
      [name |-> <<"j",".","j","p","g","x">>,          kind |-> "file", content |-> 13],
      [name |-> <<"k",".","p","n","g">>,              kind |-> "dir",  content |-> 14] }

InitDiscovery ==
    /\ os_name \in {"posix", "nt"}
    /\ has_birthtime \in BOOLEAN
    /\ tz \in {"utc", "dst"}
    /\ \E d \in DirectoriesFrom(DiscoveryPool, MaxListed) : Begin(d)

NextDiscovery == FindImages

SpecDiscovery == InitDiscovery /\ [][NextDiscovery]_vars

---------------------------------------------------------------------------
(* The pipeline run again on the directory that a run that raised left *)

\* a new process: nothing of the run before is kept but the directory
RunAgain ==
    /\ pc \in {"stage_raised", "commit_raised"}
    /\ run < MaxRuns
    /\ run' = run + 1
    /\ pc' = "start"
    /\ images' = <<>>
    /\ renames' = <<>>
    /\ temp_renames' = <<>>
    /\ idx' = 0
    /\ renamed_count' = 0
    /\ result' = "none"
    /\ rename_calls' = 0
    /\ rename_log' = <<>>
    /\ UNCHANGED <<env, fs, listed, creation_date, folder_kind, preview,
                   inputs, answer, exit_code>>

\* the order of discovery is that of the listing when every image has the
\* same timestamp: one stat and one zone are enough
InitAgain ==
    /\ os_name \in {"posix", "nt"}
    /\ has_birthtime = FALSE
    /\ tz = "utc"
    /\ \E d \in Directories :
          /\ \A n \in DOMAIN d : d[n].stat.st_birthtime = 1
          /\ Begin(d)

NextAgain ==
    \/ FindImages
    \/ GenerateNewNames
    \/ RenameFilesBegin
    \/ StageRename
    \/ StageDone
    \/ CommitRename
    \/ Return
    \/ RunAgain

SpecAgain == InitAgain /\ [][NextAgain]_vars

---------------------------------------------------------------------------
(* The pipeline run again on the directory that a run that returned left *)

\* a new process on the directory as rename_files left it: that directory
\* is the one this run begins with
RunOnResult ==
    /\ pc = "done"
    /\ run < MaxRuns
    /\ run' = run + 1
    /\ fs0' = fs
    /\ pc' = "start"
    /\ images' = <<>>
    /\ renames' = <<>>
    /\ temp_renames' = <<>>
    /\ idx' = 0
    /\ renamed_count' = 0
    /\ result' = "none"
    /\ rename_calls' = 0
    /\ rename_log' = <<>>
    /\ UNCHANGED <<os_name, has_birthtime, tz, fs, listed, creation_date,
                   folder_kind, preview, inputs, answer, exit_code>>

\* st_birthtime is one more timestamp of the same kind: the platforms
\* without it are enough
InitTwice ==
    /\ os_name \in {"posix", "nt"}
    /\ has_birthtime = FALSE
    /\ tz \in {"utc", "dst"}
    /\ \E d \in Directories : Begin(d)

NextTwice ==
    \/ FindImages
    \/ GenerateNewNames
    \/ RenameFilesBegin
    \/ StageRename
    \/ StageDone
    \/ CommitRename
    \/ Return
    \/ RunOnResult

SpecTwice == InitTwice /\ [][NextTwice]_vars

---------------------------------------------------------------------------
(* get_creation_date on one file, whatever its three timestamps *)

AnyStat ==
    [st_birthtime : 1..MaxTime, st_ctime : 1..MaxTime, st_mtime : 1..MaxTime]

\* stat = filepath.stat(); return the datetime of the chosen timestamp
GetCreationDate ==
    /\ pc = "stat"
    /\ \E n \in DOMAIN fs : creation_date' = get_creation_date(fs[n].stat)
    /\ pc' = "dated"
    /\ UNCHANGED <<env, fs, images, renames, temp_renames, idx, renamed_count,
                   result, rename_calls, rename_log, listed, folder_kind,
                   preview, inputs, answer, exit_code, run>>

InitCreationDate ==
    /\ os_name \in {"posix", "nt"}
    /\ has_birthtime \in BOOLEAN
    /\ tz \in {"utc", "dst"}
    /\ \E st \in AnyStat :
          Blank([n \in {N_a_JPG} |-> [kind |-> "file", content |-> 1, stat |-> st]])
    /\ images = <<>>
    /\ folder_kind = "dir"
    /\ pc = "stat"

NextCreationDate == GetCreationDate

SpecCreationDate == InitCreationDate /\ [][NextCreationDate]_vars

---------------------------------------------------------------------------
(* generate_new_names on a list of paths its caller built, and the         *)
(* temporary names of the plan it returns                                  *)

PlanParents == << <<"d","1">>, <<"d","2">>, <<>> >>

PlanSuffixes == << <<".","J","P","G">>, <<".","j","p","e","g">>,
                   <<".","P","n","g">>, <<".","H","E","I","C">> >>

\* n distinct paths to files of several folders, their extensions in the
\* rotation that starts at shift
PathList(n, shift) ==
    [k \in 1..n |->
        joinpath(PlanParents[(k % Len(PlanParents)) + 1],
                 <<"p">> \o Digits(k)
                   \o PlanSuffixes[((k + shift) % Len(PlanSuffixes)) + 1])]

\* generate_new_names reads neither the directory nor the environment
InitPlan ==
    /\ os_name = "posix"
    /\ has_birthtime = FALSE
    /\ tz = "utc"
    /\ Blank(<<>>)
    /\ folder_kind = "dir"
    /\ pc = "found"
    /\ \E n \in 0..MaxPlanLen, shift \in 1..Len(PlanSuffixes) :
          images = PathList(n, shift)

\* the plan, and the temporary names rename_files computes for it
NextPlan ==
    \/ GenerateNewNames
    \/ RenameFilesBegin

SpecPlan == InitPlan /\ [][NextPlan]_vars

---------------------------------------------------------------------------
(* main *)

\* the lines the user may type at the prompt
InputLines ==
    { <<"y">>, <<"Y","E","S">>, <<" ","y","e","S"," ">>,
      <<"n">>, <<"N","o","\t">>,
      <<>>, <<"o","k">>, <<"y"," ","e","s">> }

\* what preview_renames prints: a line "old.name -> new.name" for each pair,
\* then the line "Total: N file(s) to rename"
preview_renames(plan) ==
    [k \in 1..(Len(plan) + 1) |->
        IF k <= Len(plan)
        THEN <<path_name(plan[k][1]), path_name(plan[k][2])>>
        ELSE <<"Total", Len(plan)>>]

\* return 1 (or 0) from main
MainReturn(code) ==
    /\ exit_code' = code
    /\ pc' = "exited"

\* if not folder.exists(): return 1
MainFolderMissing ==
    /\ pc = "main"
    /\ folder_kind = "missing"
    /\ MainReturn(1)
    /\ UNCHANGED <<env, fs, images, renames, temp_renames, idx, renamed_count,
                   result, rename_calls, rename_log, listed, creation_date,
                   folder_kind, preview, inputs, answer, run>>

\* if not folder.is_dir(): return 1
MainNotADirectory ==
    /\ pc = "main"
    /\ folder_kind = "file"
    /\ MainReturn(1)
    /\ UNCHANGED <<env, fs, images, renames, temp_renames, idx, renamed_count,
                   result, rename_calls, rename_log, listed, creation_date,
                   folder_kind, preview, inputs, answer, run>>

\* list(folder.iterdir()) raises PermissionError: return 1
MainPermissionDenied ==
    /\ pc = "main"
    /\ folder_kind = "unreadable"
    /\ MainReturn(1)
    /\ UNCHANGED <<env, fs, images, renames, temp_renames, idx, renamed_count,
                   result, rename_calls, rename_log, listed, creation_date,
                   folder_kind, preview, inputs, answer, run>>

\* if not contents: return 1
MainFolderEmpty ==
    /\ pc = "main"
    /\ folder_kind = "dir"
    /\ DOMAIN fs = {}
    /\ MainReturn(1)
    /\ UNCHANGED <<env, fs, images, renames, temp_renames, idx, renamed_count,
                   result, rename_calls, rename_log, listed, creation_date,
                   folder_kind, preview, inputs, answer, run>>

\* the folder passed every check
MainFolderChecked ==
    /\ pc = "main"
    /\ folder_kind = "dir"
    /\ DOMAIN fs # {}
    /\ pc' = "main_find"
    /\ UNCHANGED <<env, fs, images, renames, temp_renames, idx, renamed_count,
                   result, rename_calls, rename_log, listed, creation_date,
                   folder_kind, preview, inputs, answer, exit_code, run>>

\* find_images goes on with an empty result
MainFindImages_unchecked ==
    /\ pc = "main_find"
    /\ \E listing \in Listings(fs) :
          /\ listed' = listing
          /\ images' = find_images(fs, listing)
    /\ pc' = "main_plan"
    /\ UNCHANGED <<env, fs, renames, temp_renames, idx, renamed_count, result,
                   rename_calls, rename_log, creation_date, folder_kind,
                   preview, inputs, answer, exit_code, run>>

\* images = find_images(folder); if not images: return 1
MainFindImages ==
    /\ pc = "main_find"
    /\ \E listing \in Listings(fs) :
          /\ listed' = listing
          /\ images' = find_images(fs, listing)
    /\ IF images' = <<>>
       THEN MainReturn(1)
       ELSE pc' = "main_plan" /\ UNCHANGED exit_code
    /\ UNCHANGED <<env, fs, renames, temp_renames, idx, renamed_count, result,
                   rename_calls, rename_log, creation_date, folder_kind,
                   preview, inputs, answer, run>>

\* renames = generate_new_names(images); preview_renames(renames)
MainPreview ==
    /\ pc = "main_plan"
    /\ renames' = generate_new_names(images)
    /\ preview' = preview_renames(renames')
    /\ listed' = <<>>
    /\ pc' = "confirm"
    /\ UNCHANGED <<env, fs, images, temp_renames, idx, renamed_count, result,
                   rename_calls, rename_log, creation_date, folder_kind,
                   inputs, answer, exit_code, run>>

\* a prompt that takes every line that is not a no for a yes
ConfirmAction_yes_by_default ==
    /\ pc = "confirm"
    /\ \E line \in InputLines :
          /\ inputs' = Append(inputs, line)
          /\ answer' = (IF lower(strip(line)) \in {<<"n">>, <<"n","o">>}
                        THEN "False" ELSE "True")
          /\ pc' = "answered"
    /\ UNCHANGED <<env, fs, images, renames, temp_renames, idx, renamed_count,
                   result, rename_calls, rename_log, listed, creation_date,
                   folder_kind, preview, exit_code, run>>

\* one turn of the loop of confirm_action: it reads a line and returns, or
\* prints "Please enter 'y' or 'n'" and goes round
ConfirmAction ==
    /\ pc = "confirm"
    /\ \E line \in InputLines :
          LET response == lower(strip(line))
          IN  /\ inputs' = Append(inputs, line)
              /\ IF response \in {<<"y">>, <<"y","e","s">>}
                 THEN answer' = "True" /\ pc' = "answered"
                 ELSE IF response \in {<<"n">>, <<"n","o">>}
                 THEN answer' = "False" /\ pc' = "answered"
                 ELSE /\ Len(inputs) + 1 < MaxPrompts
                      /\ UNCHANGED <<answer, pc>>
    /\ UNCHANGED <<env, fs, images, renames, temp_renames, idx, renamed_count,
                   result, rename_calls, rename_log, listed, creation_date,
                   folder_kind, preview, exit_code, run>>

\* a cancellation reported as a failure
MainCancelled_returns_1 ==
    /\ pc = "answered"
    /\ answer = "False"
    /\ MainReturn(1)
    /\ UNCHANGED <<env, fs, images, renames, temp_renames, idx, renamed_count,
                   result, rename_calls, rename_log, listed, creation_date,
                   folder_kind, preview, inputs, answer, run>>

\* if not confirm_action(): return 0
MainCancelled ==
    /\ pc = "answered"
    /\ answer = "False"
    /\ MainReturn(0)
    /\ UNCHANGED <<env, fs, images, renames, temp_renames, idx, renamed_count,
                   result, rename_calls, rename_log, listed, creation_date,
                   folder_kind, preview, inputs, answer, run>>

\* a main that renames whatever the answer was
MainRenameFiles_unconfirmed ==
    /\ pc = "answered"
    /\ pc' = "planned"
    /\ UNCHANGED <<env, fs, images, renames, temp_renames, idx, renamed_count,
                   result, rename_calls, rename_log, listed, creation_date,
                   folder_kind, preview, inputs, answer, exit_code, run>>

\* try: count = rename_files(renames)
MainRenameFiles ==
    /\ pc = "answered"
    /\ answer = "True"
    /\ pc' = "planned"
    /\ UNCHANGED <<env, fs, images, renames, temp_renames, idx, renamed_count,
                   result, rename_calls, rename_log, listed, creation_date,
                   folder_kind, preview, inputs, answer, exit_code, run>>

\* rename_files returned: return 0
MainSucceeded ==
    /\ pc = "done"
    /\ MainReturn(0)
    /\ UNCHANGED <<env, fs, images, renames, temp_renames, idx, renamed_count,
                   result, rename_calls, rename_log, listed, creation_date,
                   folder_kind, preview, inputs, answer, run>>

\* a handler that reports success
MainFailed_returns_0 ==
    /\ pc \in {"stage_raised", "commit_raised"}
    /\ MainReturn(0)
    /\ UNCHANGED <<env, fs, images, renames, temp_renames, idx, renamed_count,
                   result, rename_calls, rename_log, listed, creation_date,
                   folder_kind, preview, inputs, answer, run>>

\* except (PermissionError, OSError): return 1
MainFailed ==
    /\ pc \in {"stage_raised", "commit_raised"}
    /\ MainReturn(1)
    /\ UNCHANGED <<env, fs, images, renames, temp_renames, idx, renamed_count,
                   result, rename_calls, rename_log, listed, creation_date,
                   folder_kind, preview, inputs, answer, run>>

\* main reads no timestamp but through find_images: one stat and one zone
\* are enough.  A path that is no directory has no entries.
InitMain ==
    /\ os_name \in {"posix", "nt"}
    /\ has_birthtime = FALSE
    /\ tz = "utc"
    /\ folder_kind \in {"missing", "file", "unreadable", "dir"}
    /\ \E d \in Directories :
          /\ \A n \in DOMAIN d : d[n].stat.st_birthtime = 1
          /\ folder_kind \in {"missing", "file"} => DOMAIN d = {}
          /\ Blank(d)
    /\ images = <<>>
    /\ pc = "main"

NextMain ==
    \/ MainFolderMissing
    \/ MainNotADirectory
    \/ MainPermissionDenied
    \/ MainFolderEmpty
    \/ MainFolderChecked
    \/ MainFindImages
    \/ MainPreview
    \/ ConfirmAction
    \/ MainCancelled
    \/ MainRenameFiles
    \/ RenameFilesBegin
    \/ StageRename
    \/ StageDone
    \/ CommitRename
    \/ Return
    \/ MainSucceeded
    \/ MainFailed

SpecMain == InitMain /\ [][NextMain]_vars

---------------------------------------------------------------------------
(* Vocabulary of the properties *)

Range(q) == {q[k] : k \in 1..Len(q)}

\* the names under which the directory d holds the content c
NamesOf(d, c) == {n \in DOMAIN d : d[n].content = c}

Contents(d) == {d[n].content : n \in DOMAIN d}

\* the k-th plan entry: its source, its target, the content the source held
\* when the run began
PlanSource(k) == renames[k][1]

PlanTarget(k) == renames[k][2]

PlanContent(k) == fs0[PlanSource(k)].content

PlanIndices == 1..Len(renames)

\* the run went through find_images and generate_new_names
PipelineRun == pc \notin {"start", "found"} /\ renames = generate_new_names(images)

---------------------------------------------------------------------------
(* C1 *)

---------------------------------------------------------------------------
(* C2 *)

\* the name the rename call of the running iteration moves a file to
RenameTarget ==
    IF pc = "stage" THEN temp_renames[idx].temp ELSE temp_renames[idx].new

\* C2: no rename of rename_files, stage or commit, moves a file to a name
\* that is occupied at that moment, and the contents held by the directory
\* are the same after every rename.
C2_NoRenameOntoOccupiedName ==
    [][fs' # fs => /\ RenameTarget \notin DOMAIN fs
                   /\ Contents(fs') = Contents(fs)]_vars

---------------------------------------------------------------------------
(* C3 *)

\* the targets of the plan are a permutation of its sources
PlanIsPermutation ==
    /\ \A j, k \in PlanIndices : PlanSource(j) = PlanSource(k) => j = k
    /\ \A j, k \in PlanIndices : PlanTarget(j) = PlanTarget(k) => j = k
    /\ {PlanSource(k) : k \in PlanIndices} = {PlanTarget(k) : k \in PlanIndices}

\* C3: when rename_files returns from a plan whose targets are a permutation
\* of its sources, every target holds the content its source held, the value
\* returned is the number of plan entries, and the content of every plan
\* file is in the directory exactly once.
C3_PermutationPlanSucceeds ==
    (pc = "done" /\ PlanIsPermutation) =>
        /\ result = Len(renames)
        /\ \A k \in PlanIndices :
              /\ PlanTarget(k) \in DOMAIN fs
              /\ fs[PlanTarget(k)].content = PlanContent(k)
              /\ Cardinality(NamesOf(fs, PlanContent(k))) = 1

---------------------------------------------------------------------------
(* C4 *)

PlanTemp(k) == temp_name(PlanSource(k))

\* no rename call can follow in this run
NoFurtherRename == ~ENABLED StageRename /\ ~ENABLED CommitRename

\* C4: when the k-th rename of the first pass has raised, that call was the
\* last one (k calls were made and none can follow), the k-1 files staged
\* before it are at their temporary names, the failing file and the later
\* plan files are at their original names, and no final name has received a
\* file.
C4_StageFailureLeavesStagedFiles ==
    (pc = "stage_raised" /\ PipelineRun) =>
        /\ result = "raised"
        /\ rename_calls = idx
        /\ NoFurtherRename
        /\ renamed_count = 0
        /\ \A k \in PlanIndices :
              /\ k < idx  => NamesOf(fs, PlanContent(k)) = {PlanTemp(k)}
              /\ k >= idx => NamesOf(fs, PlanContent(k)) = {PlanSource(k)}
              /\ PlanTarget(k) \in DOMAIN fs
                    => /\ PlanTarget(k) \in DOMAIN fs0
                       /\ fs[PlanTarget(k)] = fs0[PlanTarget(k)]

---------------------------------------------------------------------------
(* C5 *)

\* C5: when the k-th rename of the second pass has raised, that call was the
\* last one, the first k-1 plan files are at their final names, the failing
\* file and the later plan files are at their temporary names, and no plan
\* file is at its original name (unless that name is its final name).
C5_CommitFailureLeavesPartialState ==
    (pc = "commit_raised" /\ PipelineRun) =>
        /\ result = "raised"
        /\ rename_calls = Len(renames) + idx
        /\ NoFurtherRename
        /\ renamed_count = idx - 1
        /\ \A k \in PlanIndices :
              /\ k < idx  => NamesOf(fs, PlanContent(k)) = {PlanTarget(k)}
              /\ k >= idx => NamesOf(fs, PlanContent(k)) = {PlanTemp(k)}

---------------------------------------------------------------------------
(* C6 *)

\* the number a decimal numeral denotes
RECURSIVE decimal_value(_)
decimal_value(digits) ==
    IF digits = <<>> THEN 0
    ELSE 10 * decimal_value(SubSeq(digits, 1, Len(digits) - 1))
         + (CHOOSE v \in 0..9 : DigitChars[v + 1] = digits[Len(digits)])

\* the part of a name before its first dot
BeforeFirstDot(name) ==
    LET dots == {k \in 1..Len(name) : name[k] = "."}
    IN  IF dots = {} THEN name
        ELSE SubSeq(name, 1, (CHOOSE k \in dots : \A m \in dots : k <= m) - 1)

IsNumeral(q) == q # <<>> /\ \A k \in 1..Len(q) : q[k] \in Range(DigitChars)

\* C6: the plan generate_new_names makes of N discovered files has N
\* entries, its sources are the discovered files in their order, the number
\* in its k-th target is k, and its targets are pairwise distinct; no file
\* gives no plan.
C6_PlanIsBijectionOntoIndices ==
    PipelineRun =>
        /\ Len(renames) = Len(images)
        /\ \A k \in PlanIndices :
              /\ PlanSource(k) = images[k]
              /\ IsNumeral(BeforeFirstDot(PlanTarget(k)))
              /\ decimal_value(BeforeFirstDot(PlanTarget(k))) = k
        /\ \A j, k \in PlanIndices : PlanTarget(j) = PlanTarget(k) => j = k
        /\ images = <<>> => renames = <<>>

\* a plan of three entries was made
C6_Witness == pc = "planned" /\ Len(images) = 3 /\ Len(renames) = 3

---------------------------------------------------------------------------
(* C7 *)

\* the timestamp the fallback chain of get_creation_date picks from the
\* metadata of a file, as the point in time the filesystem recorded
creation_timestamp(stat) ==
    IF has_birthtime THEN stat.st_birthtime
    ELSE IF os_name = "nt" THEN stat.st_ctime
    ELSE stat.st_mtime

\* C7: of two discovered files, the one whose creation timestamp is strictly
\* earlier has the smaller sequence number in the plan, whatever the names
\* and the order of the listing.
C7_EarlierFileGetsSmallerNumber ==
    PipelineRun =>
        \A j, k \in PlanIndices :
            creation_timestamp(fs0[PlanSource(j)].stat)
                < creation_timestamp(fs0[PlanSource(k)].stat)
            => decimal_value(BeforeFirstDot(PlanTarget(j)))
                 < decimal_value(BeforeFirstDot(PlanTarget(k)))

---------------------------------------------------------------------------
(* C8 *)

\* C8: when rename_files returns, it returns the number of plan entries,
\* every rename of both passes was called once and succeeded, and every plan
\* file is at its final name; from the empty plan it returns 0 and calls no
\* rename.
C8_ReturnsNumberOfPlanEntries ==
    (pc = "done" /\ PipelineRun) =>
        /\ result = Len(renames)
        /\ renamed_count = Len(renames)
        /\ rename_calls = 2 * Len(renames)
        /\ \A k \in PlanIndices :
              /\ PlanTarget(k) \in DOMAIN fs
              /\ fs[PlanTarget(k)].content = PlanContent(k)
        /\ renames = <<>> => (result = 0 /\ rename_calls = 0 /\ fs = fs0)

\* rename_files returned 3
C8_Witness == pc = "done" /\ PipelineRun /\ result = 3

\* rename_files returned from the empty plan
C8_WitnessEmpty == pc = "done" /\ PipelineRun /\ renames = <<>> /\ result = 0

---------------------------------------------------------------------------
(* C9, C10 *)

\* the extensions the specification names, without their dot
RecognizedWords == { <<"j","p","g">>, <<"j","p","e","g">>,
                     <<"p","n","g">>, <<"h","e","i","c">> }

\* the character c is the lower-case letter l or its capital
SameLetter(c, l) ==
    \E k \in 1..Len(LowerChars) :
        LowerChars[k] = l /\ (c = LowerChars[k] \/ c = UpperChars[k])

\* the name ends with a dot and a recognized extension in any letter case,
\* and something stands before that dot
HasRecognizedExtension(name) ==
    \E w \in RecognizedWords :
        /\ Len(name) > Len(w) + 1
        /\ name[Len(name) - Len(w)] = "."
        /\ \A k \in 1..Len(w) : SameLetter(name[Len(name) - Len(w) + k], w[k])

\* the entries of the directory d that discovery is to select
RecognizedFiles(d) ==
    {n \in DOMAIN d : d[n].kind = "file" /\ HasRecognizedExtension(n)}

\* C9: every entry of the directory that is not a regular file with a
\* recognized extension has its name, its content and its metadata in every
\* state of a run, whether the run returns or raises.
C9_OtherEntriesUntouched ==
    \A n \in DOMAIN fs0 \ RecognizedFiles(fs0) :
        n \in DOMAIN fs /\ fs[n] = fs0[n]

\* a run raised after it had renamed a file, in a directory that holds a
\* file of another type and a subdirectory
C9_Witness ==
    /\ pc \in {"stage_raised", "commit_raised"}
    /\ fs # fs0
    /\ \E n, m \in DOMAIN fs0 \ RecognizedFiles(fs0) :
          fs0[n].kind = "file" /\ fs0[m].kind = "dir"

\* C10: find_images returns, each once, exactly the regular files of the
\* folder whose extension is jpg, jpeg, png or heic in any letter case.
C10_DiscoverySelectsRecognizedFiles ==
    pc = "found" =>
        /\ Range(images) = RecognizedFiles(fs)
        /\ Len(images) = Cardinality(RecognizedFiles(fs))

\* discovery took a file with a capital extension and left out an entry
\* next to it
C10_Witness ==
    /\ pc = "found"
    /\ Cardinality(DOMAIN fs) = 2
    /\ \E n \in Range(images) : suffix(n) # lower(suffix(n))
    /\ \E n \in DOMAIN fs : n \notin Range(images)

---------------------------------------------------------------------------
(* C17 *)

\* the j-th call of a run of rename_files over a plan of n entries that keeps
\* the two passes apart and each in plan order: the stage rename of entry j,
\* or the commit rename of entry j - n
OrderedCall(j) ==
    LET n == Len(renames)
    IN  IF j <= n
        THEN [src |-> PlanSource(j), dst |-> PlanTemp(j)]
        ELSE [src |-> PlanTemp(j - n), dst |-> PlanTarget(j - n)]

\* C17: in every state of a run of rename_files over a plan of n entries, the
\* rename calls made so far are the stage renames of entries 1, 2, ... in plan
\* order followed, only once all n stage renames have returned, by the commit
\* renames of entries 1, 2, ... in plan order; no call follows a call that
\* raised.
C17_StageBeforeCommitInPlanOrder ==
    /\ Len(rename_log) <= 2 * Len(renames)
    /\ \A j \in 1..Len(rename_log) :
          /\ rename_log[j].src = OrderedCall(j).src
          /\ rename_log[j].dst = OrderedCall(j).dst
          /\ j < Len(rename_log) => rename_log[j].ok

\* the second pass of a plan of three entries is under way
C17_Witness ==
    /\ Len(renames) = 3
    /\ Len(rename_log) = 5
    /\ rename_log[5].ok

---------------------------------------------------------------------------
(* C11 *)

\* the position of the last slash of a path, 0 when it has none
LastSlash(p) ==
    LET hits == {k \in 1..Len(p) : p[k] = "/"}
    IN  IF hits = {} THEN 0 ELSE CHOOSE k \in hits : \A m \in hits : m <= k

\* the directory a path lies in, and the name it has there
DirPart(p) == SubSeq(p, 1, LastSlash(p))

BasePart(p) == SubSeq(p, LastSlash(p) + 1, Len(p))

\* the part of a name from its last dot on
FromLastDot(name) ==
    LET dots == {k \in 1..Len(name) : name[k] = "."}
    IN  IF dots = {} THEN <<>>
        ELSE SubSeq(name, CHOOSE k \in dots : \A m \in dots : m <= k, Len(name))

\* the number of digits of the decimal numeral of k >= 1
NaturalWidth(k) == IF k < 10 THEN 1 ELSE IF k < 100 THEN 2 ELSE 3

\* e is the extension s in lower case
IsLowerCaseOf(e, s) ==
    /\ Len(e) = Len(s)
    /\ \A j \in 1..Len(e) :
          /\ e[j] \notin Range(UpperChars)
          /\ e[j] = s[j] \/ SameLetter(s[j], e[j])

\* C11: the target at the 1-based position k of a plan lies in the directory
\* of its source, and its name is the decimal numeral of k, padded with
\* zeros to two digits up to 99 and of its natural width from 100 on,
\* followed by the source's extension in lower case.
C11_TargetIsPaddedIndexAndLowerExtension ==
    (pc = "planned" /\ renames = generate_new_names(images)) =>
        \A k \in PlanIndices :
            LET numeral == BeforeFirstDot(BasePart(PlanTarget(k)))
            IN  /\ DirPart(PlanTarget(k)) = DirPart(PlanSource(k))
                /\ IsNumeral(numeral)
                /\ decimal_value(numeral) = k
                /\ Len(numeral) = (IF k <= 99 THEN 2 ELSE NaturalWidth(k))
                /\ BasePart(PlanTarget(k))
                     = numeral \o FromLastDot(BasePart(PlanTarget(k)))
                /\ IsLowerCaseOf(FromLastDot(BasePart(PlanTarget(k))),
                                 FromLastDot(BasePart(PlanSource(k))))

\* a plan reaches position 100, with a source in a folder of its own and an
\* extension in capitals at positions 9, 99 and 100
C11_Witness ==
    /\ pc = "planned"
    /\ Len(renames) >= 100
    /\ \A k \in {9, 99, 100} :
          /\ DirPart(PlanSource(k)) # <<>>
          /\ \E j \in 1..Len(PlanSource(k)) :
                PlanSource(k)[j] \in Range(UpperChars)

---------------------------------------------------------------------------
(* C12 *)

\* the preview shows every (original, new) pair of the plan, in plan order,
\* and then the number of pairs
PreviewShowsPlan ==
    /\ renames # <<>>
    /\ Len(preview) = Len(renames) + 1
    /\ \A k \in PlanIndices :
          preview[k] = <<BasePart(PlanSource(k)), BasePart(PlanTarget(k))>>
    /\ preview[Len(renames) + 1] = <<"Total", Len(renames)>>

\* C12: in every state of a run of main, the prompt has read a line only
\* after the preview of all pairs and of their number was printed, and a
\* rename has been called only after the prompt, having read its lines after
\* that preview, returned true.
C12_NoRenameBeforePreviewAndConfirmation ==
    /\ inputs # <<>> => PreviewShowsPlan
    /\ (rename_log # <<>> \/ fs # fs0 \/ pc \in {"planned", "stage", "commit"})
          => (PreviewShowsPlan /\ inputs # <<>> /\ answer = "True")

\* main has renamed a file after a preview of three pairs
C12_Witness ==
    /\ Len(renames) = 3
    /\ fs # fs0
    /\ answer = "True"

---------------------------------------------------------------------------
(* C13 *)

\* C13: once the user has declined, main makes no rename call, the directory
\* stays as it was when main began, and main returns 0.
C13_DeclineChangesNothing ==
    answer = "False" =>
        /\ rename_log = <<>>
        /\ rename_calls = 0
        /\ fs = fs0
        /\ pc \in {"answered", "exited"}
        /\ pc = "exited" => exit_code = 0

\* main returned after the user declined at the second prompt
C13_Witness ==
    /\ pc = "exited"
    /\ answer = "False"
    /\ Len(inputs) = 2

---------------------------------------------------------------------------
(* C14 *)

\* the folder given to main does not exist, is not a directory, cannot be
\* listed, is empty, or holds no file with a recognized extension
FolderRejected ==
    \/ folder_kind \in {"missing", "file", "unreadable"}
    \/ DOMAIN fs0 = {}
    \/ RecognizedFiles(fs0) = {}

\* C14: when the folder does not exist, is not a directory, cannot be
\* listed, is empty or holds no recognized image, main never shows the
\* prompt and never renames, the directory stays as it was, and the value
\* main returns is 1.
C14_RejectedFolderReturnsOne ==
    FolderRejected =>
        /\ inputs = <<>>
        /\ answer = "none"
        /\ rename_log = <<>>
        /\ rename_calls = 0
        /\ fs = fs0
        /\ pc \in {"main", "main_find", "exited"}
        /\ pc = "exited" => exit_code = 1

\* main returned on a folder that holds entries, none of them an image
C14_Witness ==
    /\ pc = "exited"
    /\ folder_kind = "dir"
    /\ Cardinality(DOMAIN fs0) = 2
    /\ RecognizedFiles(fs0) = {}

---------------------------------------------------------------------------
(* C15 *)

\* every rename of the plan was called and returned
EveryRenameSucceeded ==
    /\ Len(rename_log) = 2 * Len(renames)
    /\ \A j \in 1..Len(rename_log) : rename_log[j].ok

\* C15: the value main returns is 0 or 1, and it is 0 exactly when the user
\* cancelled or the user confirmed and every rename succeeded; an exception
\* of rename_files, in either pass, reaches the handler of main, which
\* returns 1.
C15_ExitCodeZeroIffCancelledOrRenamed ==
    /\ pc \in {"stage_raised", "commit_raised"} => ENABLED MainFailed
    /\ pc = "exited" =>
          /\ exit_code \in {0, 1}
          /\ exit_code = 0 <=>
                \/ answer = "False"
                \/ answer = "True" /\ EveryRenameSucceeded
          /\ (rename_log # <<>> /\ ~rename_log[Len(rename_log)].ok)
                => exit_code = 1

\* main returned after a rename of the second pass raised
C15_Witness ==
    /\ pc = "exited"
    /\ exit_code = 1
    /\ Len(rename_log) > Len(renames)
    /\ ~rename_log[Len(rename_log)].ok

---------------------------------------------------------------------------
(* C16 *)

\* the line is the word, letter by letter, in any letter case
SameWord(line, word) ==
    /\ Len(line) = Len(word)
    /\ \A k \in 1..Len(word) : SameLetter(line[k], word[k])

IsYes(line) == SameWord(line, <<"y">>) \/ SameWord(line, <<"y","e","s">>)

IsNo(line) == SameWord(line, <<"n">>) \/ SameWord(line, <<"n","o">>)

\* the line is the word in any letter case between two runs of white space
SameWordInBlanks(line, word) ==
    \E i \in 1..(Len(line) + 1) :
        /\ i + Len(word) - 1 <= Len(line)
        /\ SameWord(SubSeq(line, i, i + Len(word) - 1), word)
        /\ \A k \in 1..Len(line) :
              (k < i \/ k > i + Len(word) - 1) => line[k] \in {" ", "\t"}

IsYesInBlanks(line) ==
    SameWordInBlanks(line, <<"y">>) \/ SameWordInBlanks(line, <<"y","e","s">>)

IsNoInBlanks(line) ==
    SameWordInBlanks(line, <<"n">>) \/ SameWordInBlanks(line, <<"n","o">>)

\* C16 as stated: confirm_action has returned true only if the last line it
\* read is y or yes in any letter case, false only if that line is n or no
\* in any letter case; it has read a further line only after lines that are
\* neither, and it has not returned only if every line read is neither.
C16_ReturnsAtFirstValidAnswer ==
    /\ \A j \in 1..(Len(inputs) - 1) : ~IsYes(inputs[j]) /\ ~IsNo(inputs[j])
    /\ answer = "True" => (inputs # <<>> /\ IsYes(inputs[Len(inputs)]))
    /\ answer = "False" => (inputs # <<>> /\ IsNo(inputs[Len(inputs)]))
    /\ answer = "none" =>
          \A j \in 1..Len(inputs) : ~IsYes(inputs[j]) /\ ~IsNo(inputs[j])

\* C16, amended: the same, a line being taken without the white space at
\* its two ends.
C16_ReturnsAtFirstValidAnswerInBlanks ==
    /\ \A j \in 1..(Len(inputs) - 1) :
          ~IsYesInBlanks(inputs[j]) /\ ~IsNoInBlanks(inputs[j])
    /\ answer = "True" => (inputs # <<>> /\ IsYesInBlanks(inputs[Len(inputs)]))
    /\ answer = "False" => (inputs # <<>> /\ IsNoInBlanks(inputs[Len(inputs)]))
    /\ answer = "none" =>
          \A j \in 1..Len(inputs) :
              ~IsYesInBlanks(inputs[j]) /\ ~IsNoInBlanks(inputs[j])

\* confirm_action returned true at the third line, a yes between blanks
C16_Witness ==
    /\ answer = "True"
    /\ Len(inputs) = 3
    /\ ~IsYes(inputs[3])

---------------------------------------------------------------------------
(* C18 *)

\* the place of a name in a sequence that holds it once
PlaceIn(q, name) == CHOOSE k \in 1..Len(q) : q[k] = name

\* C18: in the list find_images returns, the creation timestamps of the
\* files never decrease, and of two files with the same creation timestamp
\* the one that the directory listing yielded first comes first.
C18_AscendingAndStable ==
    pc = "found" =>
        \A j, k \in 1..Len(images) :
            j < k =>
                LET tj == creation_timestamp(fs[images[j]].stat)
                    tk == creation_timestamp(fs[images[k]].stat)
                IN  /\ tj <= tk
                    /\ tj = tk => PlaceIn(listed, images[j]) < PlaceIn(listed, images[k])

---------------------------------------------------------------------------
(* C19 *)

\* C19: the date get_creation_date returns for a file is that of its birth
\* time whenever the platform exposes a birth time; when it exposes none,
\* that of its change time on Windows, and that of its modification time
\* anywhere else.
C19_FallbackChain ==
    pc = "dated" =>
        \A n \in DOMAIN fs :
            /\ has_birthtime
                  => creation_date = fromtimestamp(fs[n].stat.st_birthtime)
            /\ (~has_birthtime /\ os_name = "nt")
                  => creation_date = fromtimestamp(fs[n].stat.st_ctime)
            /\ (~has_birthtime /\ os_name # "nt")
                  => creation_date = fromtimestamp(fs[n].stat.st_mtime)

\* the date of a file on a Windows that exposes the birth time, the three
\* timestamps of the file giving three dates
C19_Witness ==
    /\ pc = "dated"
    /\ has_birthtime
    /\ os_name = "nt"
    /\ \A n \in DOMAIN fs :
          /\ fromtimestamp(fs[n].stat.st_birthtime) # fromtimestamp(fs[n].stat.st_ctime)
          /\ fromtimestamp(fs[n].stat.st_birthtime) # fromtimestamp(fs[n].stat.st_mtime)
          /\ fromtimestamp(fs[n].stat.st_ctime) # fromtimestamp(fs[n].stat.st_mtime)

---------------------------------------------------------------------------
(* C20 *)

\* the contents of the images the directory held before the first run
OriginalImages == {fs0[n].content : n \in RecognizedFiles(fs0)}

\* the numbers in the names under which the directory holds original images
NumbersInUse ==
    {decimal_value(BeforeFirstDot(n)) :
        n \in {m \in DOMAIN fs : fs[m].content \in OriginalImages}}

\* C20: when a run of rename_files has raised, in its first or its second
\* pass, every file of its plan is in the directory under a name with a
\* recognized extension; a later run of find_images discovers every one of
\* them; and when a later run returns, the content of every original image
\* is in the directory exactly once, under a name whose number is one of
\* 1..N, every number of 1..N being in use.
C20_LaterRunCompletesAbortedRun ==
    /\ (run = 1 /\ pc \in {"stage_raised", "commit_raised"}) =>
          \A k \in PlanIndices :
              \E n \in NamesOf(fs, PlanContent(k)) :
                  fs[n].kind = "file" /\ HasRecognizedExtension(n)
    /\ (run > 1 /\ pc = "found") =>
          \A c \in OriginalImages :
              NamesOf(fs, c) # {} /\ NamesOf(fs, c) \subseteq Range(images)
    /\ (run > 1 /\ pc = "done") =>
          /\ \A c \in OriginalImages :
                /\ Cardinality(NamesOf(fs, c)) = 1
                /\ \A n \in NamesOf(fs, c) : IsNumeral(BeforeFirstDot(n))
          /\ NumbersInUse = 1..Cardinality(OriginalImages)

---------------------------------------------------------------------------
(* C21 *)

\* the images of the directory d have pairwise distinct creation timestamps
DistinctTimestamps(d) ==
    \A n, m \in RecognizedFiles(d) :
        n # m => creation_timestamp(d[n].stat) # creation_timestamp(d[m].stat)

\* C21: when the pipeline is run on a directory that a run before it renamed
\* and returned from, the creation timestamps of its images being pairwise
\* distinct, every entry of its plan has its source as its target, and when
\* rename_files returns the directory is as the run found it: every file
\* under the same name with the same content.
C21_SecondRunChangesNothing ==
    (run > 1 /\ DistinctTimestamps(fs0)) =>
        /\ pc \in {"planned", "stage", "commit", "done"} =>
              \A k \in PlanIndices : PlanSource(k) = PlanTarget(k)
        /\ pc = "done" => fs = fs0

---------------------------------------------------------------------------
(* C22 *)

\* the name begins with the prefix
BeginsWith(name, prefix) ==
    Len(name) >= Len(prefix) /\ SubSeq(name, 1, Len(prefix)) = prefix

\* C22: once rename_files has computed the temporary names of a plan of
\* generate_new_names, there is one for every plan entry, every one begins
\* with __temp_rename_ and every target with a digit, the temporary names of
\* two entries differ, and no temporary name is a target of the plan: no
\* rename of the second pass has the temporary name of any entry, staged or
\* not, as its target.
C22_TempNamesDistinctAndNoTarget ==
    (PipelineRun /\ pc # "planned") =>
        /\ Len(temp_renames) = Len(renames)
        /\ \A j \in 1..Len(temp_renames) :
              /\ temp_renames[j].old = PlanSource(j)
              /\ temp_renames[j].new = PlanTarget(j)
              /\ BeginsWith(BasePart(temp_renames[j].temp),
                            <<"_","_","t","e","m","p","_","r","e","n","a","m","e","_">>)
              /\ BasePart(PlanTarget(j))[1] \in Range(DigitChars)
        /\ \A j, k \in 1..Len(temp_renames) :
              /\ j # k => temp_renames[j].temp # temp_renames[k].temp
              /\ temp_renames[j].temp # PlanTarget(k)

\* the temporary names of a plan of a hundred entries and more, of files in
\* several folders
C22_Witness ==
    /\ PipelineRun
    /\ pc = "stage"
    /\ Len(temp_renames) >= 100
    /\ \E j, k \in 1..Len(temp_renames) :
          DirPart(temp_renames[j].temp) # DirPart(temp_renames[k].temp)

=============================================================================
